---- MODULE Spec2Model ----
(***************************************************************************)
(* Model of ipa_to_arpabet.py: conversion of IPA-like phone labels in      *)
(* timestamp JSON documents to ARPABET.                                    *)
(*                                                                         *)
(* A string is a sequence of characters.  A printable ASCII character is   *)
(* the one-character string itself; any other character is named by its    *)
(* code point ("U+0259" is the schwa).  An optional value (Python's None   *)
(* or a value) is a sequence of length 0 or 1.                             *)
(***************************************************************************)
EXTENDS Integers, Sequences, FiniteSets, TLC

VARIABLES
    pc,              \* position of the run being modelled
    default_stress,  \* the stress policy: None, or Some(digit)
    phone,           \* the label given to ipa_phone_to_arpabet
    out,             \* its result
    out2,            \* the result of converting out again
    doc,             \* the JSON value given to convert_json_obj
    doc_out,         \* the value it returns
    args,            \* main: the parsed command line
    fs,              \* main: what the input path is, and the files under it
    out_root,        \* main: out_path (file input) or out_dir (directory input)
    remaining,       \* main: files _iter_json_files has not yet visited
    in_file,         \* main: the file of the current loop iteration
    obj,             \* main: the JSON value loaded from it
    reads,           \* main: the files read so far, in order
    writes,          \* main: the files written so far, in order
    created,         \* main: the directories _write_json has made
    status,          \* main: "running", "ok", "usage" (SystemExit), "crashed"
    message          \* main: the text SystemExit carries

phoneVars == <<phone, out, out2>>

docVars == <<doc, doc_out>>

mainVars ==
    <<args, fs, out_root, remaining, in_file, obj, reads, writes, created,
      status, message>>

vars == <<pc, default_stress, phoneVars, docVars, mainVars>>

None == <<>>

Some(x) == <<x>>

(***************************************************************************)
(* str.upper(), str.lower() and str.strip() on the characters the model    *)
(* uses (Unicode case mappings of Python 3).                               *)
(***************************************************************************)
ASCII_LOWER ==
    <<"a", "b", "c", "d", "e", "f", "g", "h", "i", "j", "k", "l", "m",
      "n", "o", "p", "q", "r", "s", "t", "u", "v", "w", "x", "y", "z">>

ASCII_UPPER ==
    <<"A", "B", "C", "D", "E", "F", "G", "H", "I", "J", "K", "L", "M",
      "N", "O", "P", "Q", "R", "S", "T", "U", "V", "W", "X", "Y", "Z">>

\* Lower-case / upper-case pairs outside ASCII that map to each other.
CASE_PAIRS ==
    { <<"U+00E6", "U+00C6">>, <<"U+00F0", "U+00D0">>, <<"U+014B", "U+014A">>,
      <<"U+0254", "U+0186">>, <<"U+0259", "U+018F">>, <<"U+025B", "U+0190">>,
      <<"U+0283", "U+01A9">>, <<"U+028A", "U+01B1">>, <<"U+0292", "U+01B7">>,
      <<"U+028C", "U+0245">>, <<"U+0251", "U+2C6D">>, <<"U+025C", "U+A7AB">>,
      <<"U+0261", "U+A7AC">>, <<"U+026A", "U+A7AE">>, <<"U+03B8", "U+0398">> }

\* One-way mappings: sharp s, long s, dotless i upper-case into ASCII.
UPPER_SPECIAL ==
       ("U+00DF" :> <<"S", "S">>)
    @@ ("U+017F" :> <<"S">>)
    @@ ("U+0131" :> <<"I">>)

\* One-way mappings: dotted capital I and the Kelvin sign lower-case into ASCII.
LOWER_SPECIAL ==
       ("U+0130" :> <<"i", "U+0307">>)
    @@ ("U+212A" :> <<"k">>)

char_upper(c) ==
    IF \E i \in 1..26 : ASCII_LOWER[i] = c
    THEN <<ASCII_UPPER[CHOOSE i \in 1..26 : ASCII_LOWER[i] = c]>>
    ELSE IF \E p \in CASE_PAIRS : p[1] = c
    THEN <<(CHOOSE p \in CASE_PAIRS : p[1] = c)[2]>>
    ELSE IF c \in DOMAIN UPPER_SPECIAL THEN UPPER_SPECIAL[c]
    ELSE <<c>>

char_lower(c) ==
    IF \E i \in 1..26 : ASCII_UPPER[i] = c
    THEN <<ASCII_LOWER[CHOOSE i \in 1..26 : ASCII_UPPER[i] = c]>>
    ELSE IF \E p \in CASE_PAIRS : p[2] = c
    THEN <<(CHOOSE p \in CASE_PAIRS : p[2] = c)[1]>>
    ELSE IF c \in DOMAIN LOWER_SPECIAL THEN LOWER_SPECIAL[c]
    ELSE <<c>>

RECURSIVE str_upper(_)
str_upper(s) ==
    IF s = <<>> THEN <<>> ELSE char_upper(Head(s)) \o str_upper(Tail(s))

RECURSIVE str_lower(_)
str_lower(s) ==
    IF s = <<>> THEN <<>> ELSE char_lower(Head(s)) \o str_lower(Tail(s))

WHITESPACE == {" ", "\t", "\n", "U+00A0"}

RECURSIVE str_lstrip(_)
str_lstrip(s) ==
    IF s # <<>> /\ Head(s) \in WHITESPACE THEN str_lstrip(Tail(s)) ELSE s

RECURSIVE str_rstrip(_)
str_rstrip(s) ==
    IF s # <<>> /\ s[Len(s)] \in WHITESPACE
    THEN str_rstrip(SubSeq(s, 1, Len(s) - 1))
    ELSE s

str_strip(s) == str_rstrip(str_lstrip(s))

\* str.endswith with a tuple of one-character suffixes.
str_endswith(s, suffixes) == s # <<>> /\ s[Len(s)] \in suffixes

\* str(n) for a natural number n, as the f-string of line 176 formats it.
RECURSIVE int_str(_)
int_str(n) ==
    LET digit == <<"0", "1", "2", "3", "4", "5", "6", "7", "8", "9">>[(n % 10) + 1]
    IN  IF n < 10 THEN <<digit>> ELSE int_str(n \div 10) \o <<digit>>

\* dict.get(key): the value, or None.
dict_get(d, key) == IF key \in DOMAIN d THEN Some(d[key]) ELSE None

(***************************************************************************)
(* The tables.                                                             *)
(***************************************************************************)
IPA_TO_ARPABET ==
       (<<"U+0251">> :> <<"A", "A">>)
    @@ (<<"U+00E6">> :> <<"A", "E">>)
    @@ (<<"U+028C">> :> <<"A", "H">>)
    @@ (<<"U+0259">> :> <<"A", "H", "0">>)
    @@ (<<"U+0254">> :> <<"A", "O">>)
    @@ (<<"a", "U+026A">> :> <<"A", "Y">>)
    @@ (<<"a", "U+028A">> :> <<"A", "W">>)
    @@ (<<"e", "U+026A">> :> <<"E", "Y">>)
    @@ (<<"o", "U+028A">> :> <<"O", "W">>)
    @@ (<<"U+0254", "U+026A">> :> <<"O", "Y">>)
    @@ (<<"a", "j">> :> <<"A", "Y">>)
    @@ (<<"a", "w">> :> <<"A", "W">>)
    @@ (<<"e", "j">> :> <<"E", "Y">>)
    @@ (<<"o", "w">> :> <<"O", "W">>)
    @@ (<<"U+0254", "j">> :> <<"O", "Y">>)
    @@ (<<"U+025C", "r">> :> <<"E", "R">>)
    @@ (<<"U+0259", "r">> :> <<"E", "R", "0">>)
    @@ (<<"U+025D">> :> <<"E", "R">>)
    @@ (<<"U+025A">> :> <<"E", "R", "0">>)
    @@ (<<"U+026A">> :> <<"I", "H">>)
    @@ (<<"i">> :> <<"I", "Y">>)
    @@ (<<"U+028A">> :> <<"U", "H">>)
    @@ (<<"u">> :> <<"U", "W">>)
    @@ (<<"b">> :> <<"B">>)
    @@ (<<"t", "U+0283">> :> <<"C", "H">>)
    @@ (<<"d">> :> <<"D">>)
    @@ (<<"U+00F0">> :> <<"D", "H">>)
    @@ (<<"U+025B">> :> <<"E", "H">>)
    @@ (<<"f">> :> <<"F">>)
    @@ (<<"U+0261">> :> <<"G">>)
    @@ (<<"g">> :> <<"G">>)
    @@ (<<"h">> :> <<"H", "H">>)
    @@ (<<"d", "U+0292">> :> <<"J", "H">>)
    @@ (<<"k">> :> <<"K">>)
    @@ (<<"l">> :> <<"L">>)
    @@ (<<"m">> :> <<"M">>)
    @@ (<<"n">> :> <<"N">>)
    @@ (<<"U+014B">> :> <<"N", "G">>)
    @@ (<<"p">> :> <<"P">>)
    @@ (<<"r">> :> <<"R">>)
    @@ (<<"U+0279">> :> <<"R">>)
    @@ (<<"s">> :> <<"S">>)
    @@ (<<"U+0283">> :> <<"S", "H">>)
    @@ (<<"t">> :> <<"T">>)
    @@ (<<"U+03B8">> :> <<"T", "H">>)
    @@ (<<"v">> :> <<"V">>)
    @@ (<<"w">> :> <<"W">>)
    @@ (<<"j">> :> <<"Y">>)
    @@ (<<"z">> :> <<"Z">>)
    @@ (<<"U+0292">> :> <<"Z", "H">>)
    @@ (<<"s", "p", "n">> :> <<"s", "p", "n">>)
    @@ (<<"s", "i", "l">> :> <<"s", "i", "l">>)

VOWEL_BASES ==
    {<<"A", "A">>, <<"A", "E">>, <<"A", "H">>, <<"A", "O">>, <<"A", "W">>,
     <<"A", "Y">>, <<"E", "H">>, <<"E", "R">>, <<"E", "Y">>, <<"I", "H">>,
     <<"I", "Y">>, <<"O", "W">>, <<"O", "Y">>, <<"U", "H">>, <<"U", "W">>}

(***************************************************************************)
(* _ARPABET_RE = ^[A-Z]{1,3}[0-2]?$ under re.match: one to three ASCII     *)
(* capitals, an optional digit 0-2, then the end of the string ($ also     *)
(* matches just before one final newline).                                 *)
(***************************************************************************)
ARPABET_RE_match(s) ==
    \E n \in 1..3 :
        /\ n <= Len(s)
        /\ \A i \in 1..n : \E j \in 1..26 : ASCII_UPPER[j] = s[i]
        /\ SubSeq(s, n + 1, Len(s)) \in
               {<<>>, <<"\n">>} \cup {<<d>> : d \in {"0", "1", "2"}}
                                \cup {<<d, "\n">> : d \in {"0", "1", "2"}}

\* Mutation of _looks_like_arpabet: the pattern is matched against the label
\* as written, without upper-casing it first.
_looks_like_arpabet_case_sensitive(s0) ==
    LET s == str_strip(s0)
    IN  s = <<"S", "P", "N">> \/ ARPABET_RE_match(s)

\* Mutation of _looks_like_arpabet: the pattern lacks its end anchor, so any
\* label that starts with a capital letter after upper-casing matches.
_looks_like_arpabet_unanchored(s0) ==
    LET s == str_upper(str_strip(s0))
    IN  \/ s = <<"S", "P", "N">>
        \/ s # <<>> /\ \E j \in 1..26 : ASCII_UPPER[j] = s[1]

_looks_like_arpabet(s0) ==
    LET s == str_upper(str_strip(s0))
    IN  s = <<"S", "P", "N">> \/ ARPABET_RE_match(s)

\* Lines 159-162: exact lookup, then lookup of the lower-cased label.
lookup_base(p_norm) ==
    LET direct == dict_get(IPA_TO_ARPABET, p_norm)
    IN  IF direct = None
        THEN dict_get(IPA_TO_ARPABET, str_lower(p_norm))
        ELSE direct

\* Mutation of apply_stress: the policy digit replaces a stress digit that
\* the table value carries.
apply_stress_policy_wins(base, default_stress_) ==
    LET base_up == str_upper(base)
        bare    == IF str_endswith(base_up, {"0", "1", "2"})
                   THEN SubSeq(base_up, 1, Len(base_up) - 1)
                   ELSE base_up
    IN  IF bare \in VOWEL_BASES /\ default_stress_ # None
        THEN bare \o int_str(default_stress_[1])
        ELSE base_up

\* Lines 168-178: explicit stress of the table, else the default stress.
apply_stress(base, default_stress_) ==
    LET base_up == str_upper(base)
    IN  IF str_endswith(str_upper(base), {"0", "1", "2"})
        THEN str_upper(base)
        ELSE IF base_up \in VOWEL_BASES /\ default_stress_ # None
        THEN base_up \o int_str(default_stress_[1])
        ELSE base_up

ipa_phone_to_arpabet(phone_, default_stress_) ==
    LET raw    == phone_
        p      == str_strip(phone_)
        p_norm == p
        base   == lookup_base(p_norm)
    IN  IF p = <<>> THEN raw
        ELSE IF str_lower(p) \in {<<"s", "p", "n">>, <<"s", "i", "l">>}
        THEN str_lower(p)
        ELSE IF _looks_like_arpabet(p)
        THEN IF str_upper(p) = <<"S", "P", "N">>
             THEN <<"s", "p", "n">>
             ELSE str_upper(p)
        ELSE IF base = None THEN p
        ELSE apply_stress(base[1], default_stress_)

(***************************************************************************)
(* JSON values.  A value is a record: kind, the string or number it holds, *)
(* and for a list or a dict its items in order, each a key and a value (a  *)
(* list item has the empty key).  Keys are plain strings.                  *)
(***************************************************************************)
JNull == [kind |-> "null", str |-> <<>>, num |-> 0, items |-> <<>>]

JStr(s) == [kind |-> "str", str |-> s, num |-> 0, items |-> <<>>]

JNum(n) == [kind |-> "num", str |-> <<>>, num |-> n, items |-> <<>>]

JList(vs) ==
    [kind |-> "list", str |-> <<>>, num |-> 0,
     items |-> [i \in DOMAIN vs |-> [key |-> "", val |-> vs[i]]]]

JDict(kvs) ==
    [kind |-> "dict", str |-> <<>>, num |-> 0,
     items |-> [i \in DOMAIN kvs |-> [key |-> kvs[i][1], val |-> kvs[i][2]]]]

\* isinstance(v, dict) and key in v
dict_has(v, key) ==
    v.kind = "dict" /\ \E i \in DOMAIN v.items : v.items[i].key = key

\* v[key]
dict_item(v, key) ==
    v.items[CHOOSE i \in DOMAIN v.items : v.items[i].key = key].val

\* v[key] = x, on a key the dict already has: the position is kept.
dict_assign(v, key, x) ==
    [v EXCEPT !.items =
        [i \in DOMAIN @ |-> IF @[i].key = key THEN [@[i] EXCEPT !.val = x]
                                              ELSE @[i]]]

\* Line 198-199: one interval object of a container.
convert_interval(it, default_stress_) ==
    IF dict_has(it, "text") /\ dict_item(it, "text").kind = "str"
    THEN dict_assign(it, "text",
             JStr(ipa_phone_to_arpabet(dict_item(it, "text").str,
                                       default_stress_)))
    ELSE it

\* The in-place update of the container, as the value it holds afterwards.
_convert_interval_container(container, default_stress_) ==
    IF container.kind \in {"dict", "list"}
    THEN [container EXCEPT !.items =
             [i \in DOMAIN @ |->
                 [@[i] EXCEPT !.val = convert_interval(@, default_stress_)]]]
    ELSE container

\* Mutation of convert_per_file: the words container is converted as well.
convert_per_file_and_words(per_file, default_stress_) ==
    LET a == IF dict_has(per_file, "phones")
             THEN dict_assign(per_file, "phones",
                      _convert_interval_container(
                          dict_item(per_file, "phones"), default_stress_))
             ELSE per_file
    IN  IF dict_has(a, "words")
        THEN dict_assign(a, "words",
                 _convert_interval_container(
                     dict_item(a, "words"), default_stress_))
        ELSE a

convert_per_file(per_file, default_stress_) ==
    IF dict_has(per_file, "phones")
    THEN dict_assign(per_file, "phones",
             _convert_interval_container(
                 dict_item(per_file, "phones"), default_stress_))
    ELSE per_file

convert_json_obj(obj_, default_stress_) ==
    IF dict_has(obj_, "words") /\ dict_has(obj_, "phones")
    THEN convert_per_file(obj_, default_stress_)
    ELSE IF obj_.kind = "dict"
    THEN [obj_ EXCEPT !.items =
             [i \in DOMAIN @ |->
                 IF @[i].val.kind = "dict"
                 THEN [@[i] EXCEPT !.val = convert_per_file(@, default_stress_)]
                 ELSE @[i]]]
    ELSE obj_

(***************************************************************************)
(* The state of main before a run, also held while only the conversion     *)
(* functions are exercised.                                                *)
(***************************************************************************)
NoArgs == [out |-> None, out_dir |-> None, inplace |-> FALSE,
           default_stress |-> <<"1">>]

MainIdle ==
    /\ args = NoArgs
    /\ fs = [kind |-> "missing", files |-> <<>>]
    /\ out_root = ""
    /\ remaining = {}
    /\ in_file = 0
    /\ obj = JNull
    /\ reads = <<>>
    /\ writes = <<>>
    /\ created = {}
    /\ status = "running"
    /\ message = ""

(***************************************************************************)
(* The phone mapper applied to one label, and to its own result.           *)
(***************************************************************************)
MaxLen == 4

ProbeAlphabet == {"a", "A", "h", "2", "3", " ", "U+0259", "U+0298"}

ProbeStrings == UNION {[1..k -> ProbeAlphabet] : k \in 0..MaxLen}

TableKeys == DOMAIN IPA_TO_ARPABET

Padded(S) ==
    S \cup {<<" ">> \o s : s \in S} \cup {s \o <<"\t">> : s \in S}
      \cup {<<" ">> \o s \o <<"\n">> : s \in S}

SpecialLabels ==
    { <<"U+00DF">>, <<"U+017F">>, <<"U+0131">>, <<"U+0130">>, <<"U+212A">>,
      <<"q">>, <<"S", "p", "n">>, <<"S", "I", "L">>, <<"s", "I", "l">>,
      <<"A", "A", "1">>, <<"a", "y", "0">>, <<"a", "b", "c", "d">> }

PhoneInputs ==
    ProbeStrings
      \cup Padded(TableKeys \cup {str_upper(k) : k \in TableKeys} \cup SpecialLabels)

StressPolicies == {None, Some(0), Some(1), Some(2)}

InitPhone ==
    /\ phone \in PhoneInputs
    /\ default_stress \in StressPolicies
    /\ out = <<>>
    /\ out2 = <<>>
    /\ pc = "start"
    /\ doc = JNull
    /\ doc_out = JNull
    /\ MainIdle

Convert ==
    /\ pc = "start"
    /\ out' = ipa_phone_to_arpabet(phone, default_stress)
    /\ pc' = "converted"
    /\ UNCHANGED <<phone, default_stress, out2, docVars, mainVars>>

Reconvert ==
    /\ pc = "converted"
    /\ out2' = ipa_phone_to_arpabet(out, default_stress)
    /\ pc' = "reconverted"
    /\ UNCHANGED <<phone, default_stress, out, docVars, mainVars>>

NextPhone == Convert \/ Reconvert

SpecPhone == InitPhone /\ [][NextPhone]_vars

(***************************************************************************)
(* convert_json_obj applied to one JSON value.                             *)
(***************************************************************************)
MaxItems == 2

Texts == {<<"t">>, <<"U+0259">>, <<"U+026A">>}

Interval(t) ==
    JDict(<< <<"text", JStr(t)>>, <<"xmin", JNum(0)>>, <<"xmax", JNum(1)>> >>)

\* Interval records, and values an interval container may hold instead.
Elems ==
    {Interval(t) : t \in Texts} \cup
    { JDict(<< <<"xmin", JNum(0)>>, <<"text", JStr(<<"U+026A">>)>> >>),
      JDict(<< <<"xmin", JNum(0)>> >>),
      JDict(<< <<"text", JNum(7)>> >>),
      JDict(<< <<"text", JDict(<< <<"text", JStr(<<"U+026A">>)>> >>)>> >>),
      JStr(<<"U+026A">>) }

ElemSeqs(n) == UNION {[1..k -> Elems] : k \in 0..n}

IndexKey(i) == <<"0", "1", "2", "3", "4", "5", "6", "7", "8", "9">>[i + 1]

AsDict(es) == JDict([i \in DOMAIN es |-> <<IndexKey(i - 1), es[i]>>])

Scalars == {JStr(<<"U+026A">>), JNum(3), JNull}

Containers(n) ==
    {JList(es) : es \in ElemSeqs(n)} \cup {AsDict(es) : es \in ElemSeqs(n)}
      \cup Scalars

Words == JList(<<Interval(<<"U+026A">>)>>)

PerFiles(cs) ==
    {JDict(<< <<"words", Words>>, <<"phones", c>> >>) : c \in cs} \cup
    {JDict(<< <<"phones", c>>, <<"words", Words>> >>) : c \in cs} \cup
    {JDict(<< <<"phones", c>> >>) : c \in cs} \cup
    {JDict(<< <<"words", Words>> >>)}

SmallPerFiles == PerFiles({JList(<<e>>) : e \in Elems})

Docs ==
    PerFiles(Containers(MaxItems)) \cup
    {JDict(<< <<"a.wav", pf>> >>) : pf \in PerFiles(Containers(MaxItems))} \cup
    {JDict(<< <<"a.wav", pf>>, <<"b.wav", v>> >>) :
        pf \in SmallPerFiles, v \in SmallPerFiles \cup Scalars} \cup
    {JDict(<< <<"words", pf>> >>) : pf \in SmallPerFiles} \cup
    {JDict(<< <<"phones", pf>> >>) : pf \in SmallPerFiles} \cup
    {JList(<<pf>>) : pf \in SmallPerFiles} \cup
    Scalars \cup {JDict(<<>>)}

InitDoc ==
    /\ doc \in Docs
    /\ default_stress \in StressPolicies
    /\ doc_out = JNull
    /\ pc = "doc_start"
    /\ phone = <<>>
    /\ out = <<>>
    /\ out2 = <<>>
    /\ MainIdle

ConvertDoc ==
    /\ pc = "doc_start"
    /\ doc_out' = convert_json_obj(doc, default_stress)
    /\ pc' = "doc_converted"
    /\ UNCHANGED <<doc, default_stress, phoneVars, mainVars>>

NextDoc == ConvertDoc

SpecDoc == InitDoc /\ [][NextDoc]_vars

(***************************************************************************)
(* main.  The command line is already parsed by argparse.  The input path  *)
(* is missing, a file, a directory or something else; a directory holds    *)
(* files 1..n matching *.json, each valid JSON, malformed JSON, or under a *)
(* hidden directory.  Output locations are named "input" (--inplace), the  *)
(* value of --out / --out_dir, or "default" (the derived name).            *)
(***************************************************************************)
DIGIT_VALUE ==
       ("0" :> 0) @@ ("1" :> 1) @@ ("2" :> 2) @@ ("3" :> 3) @@ ("4" :> 4)
    @@ ("5" :> 5) @@ ("6" :> 6) @@ ("7" :> 7) @@ ("8" :> 8) @@ ("9" :> 9)
    @@ ("U+0662" :> 2)

RECURSIVE digits_value(_)
digits_value(ds) ==
    IF ds = <<>> THEN 0
    ELSE 10 * digits_value(SubSeq(ds, 1, Len(ds) - 1)) + DIGIT_VALUE[ds[Len(ds)]]

\* int(s) in base 10: Some(value), or None for ValueError.  Surrounding
\* whitespace is dropped, one sign is allowed, and single underscores may
\* separate digits.
py_int(s) ==
    LET t      == str_strip(s)
        signed == t # <<>> /\ t[1] \in {"+", "-"}
        body   == IF signed THEN Tail(t) ELSE t
        digits == SelectSeq(body, LAMBDA c : c # "_")
        valid  == /\ body # <<>>
                  /\ \A i \in DOMAIN body : body[i] \in DOMAIN DIGIT_VALUE \cup {"_"}
                  /\ body[1] # "_"
                  /\ body[Len(body)] # "_"
                  /\ \A i \in 1..(Len(body) - 1) : ~(body[i] = "_" /\ body[i + 1] = "_")
    IN  IF ~valid THEN None
        ELSE IF signed /\ t[1] = "-" THEN Some(0 - digits_value(digits))
        ELSE Some(digits_value(digits))

\* Mutation of parse_default_stress: none is compared without lower-casing.
parse_default_stress_exact_none(arg) ==
    IF arg = <<"n", "o", "n", "e">>
    THEN [error |-> FALSE, value |-> None]
    ELSE LET v == py_int(arg)
         IN  IF v = None \/ v[1] \notin {0, 1, 2}
             THEN [error |-> TRUE, value |-> None]
             ELSE [error |-> FALSE, value |-> v]

\* Lines 311-319: the stress policy of --default_stress, or the usage error.
parse_default_stress(arg) ==
    IF str_lower(arg) = <<"n", "o", "n", "e">>
    THEN [error |-> FALSE, value |-> None]
    ELSE LET v == py_int(arg)
         IN  IF v = None \/ v[1] \notin {0, 1, 2}
             THEN [error |-> TRUE, value |-> None]
             ELSE [error |-> FALSE, value |-> v]

\* The document of every valid input file.
SampleDoc ==
    JDict(<< <<"words", JList(<<>>)>>,
             <<"phones", AsDict(<< JDict(<< <<"text", JStr(<<"U+0254">>)>> >>),
                                   JDict(<< <<"text", JStr(<<"s", "p", "n">>)>> >>) >>)>> >>)

\* Mutation of _read_json: a parse error is swallowed and null is returned.
_read_json_skip_errors(content) ==
    [raised |-> FALSE, value |-> IF content = "malformed" THEN JNull ELSE SampleDoc]

\* json.load raises on malformed JSON; nothing in main catches it.
_read_json(content) ==
    IF content = "malformed"
    THEN [raised |-> TRUE, value |-> JNull]
    ELSE [raised |-> FALSE, value |-> SampleDoc]

\* raise SystemExit(msg)
SystemExit(msg) ==
    /\ status' = "usage"
    /\ message' = msg
    /\ pc' = "main_exit"

\* Lines 311-319.
ParseStress ==
    /\ pc = "main_start"
    /\ LET r == parse_default_stress(args.default_stress)
       IN  IF r.error
           THEN /\ SystemExit("--default_stress must be 0, 1, 2, or 'none'")
                /\ UNCHANGED default_stress
           ELSE /\ default_stress' = r.value
                /\ pc' = "main_check_input"
                /\ UNCHANGED <<status, message>>
    /\ UNCHANGED <<phoneVars, docVars, args, fs, out_root, remaining, in_file,
                   obj, reads, writes, created>>

\* Lines 321-324, 334, 349: what the input path is.
CheckInput ==
    /\ pc = "main_check_input"
    /\ IF fs.kind = "missing" THEN SystemExit("Input path not found")
       ELSE IF fs.kind = "file"
       THEN pc' = "main_file" /\ UNCHANGED <<status, message>>
       ELSE IF fs.kind = "dir"
       THEN pc' = "main_dir" /\ UNCHANGED <<status, message>>
       ELSE SystemExit("Unsupported input path type")
    /\ UNCHANGED <<default_stress, phoneVars, docVars, args, fs, out_root,
                   remaining, in_file, obj, reads, writes, created>>

\* Lines 325-327.
FileArgs ==
    /\ pc = "main_file"
    /\ IF args.out_dir # None
       THEN /\ SystemExit("--out_dir is only valid when input is a directory")
            /\ UNCHANGED out_root
       ELSE /\ out_root' = IF args.inplace THEN "input"
                           ELSE IF args.out # None /\ args.out[1] # ""
                           THEN args.out[1]
                           ELSE "default"
            /\ pc' = "main_file_read"
            /\ UNCHANGED <<status, message>>
    /\ UNCHANGED <<default_stress, phoneVars, docVars, args, fs, remaining,
                   in_file, obj, reads, writes, created>>

\* Line 329 (file input) and line 343 (directory input).
ReadStep(next_pc) ==
    LET r == _read_json(fs.files[in_file])
    IN  /\ reads' = Append(reads, in_file)
        /\ IF r.raised
           THEN /\ status' = "crashed"
                /\ message' = "JSONDecodeError"
                /\ pc' = "main_exit"
                /\ UNCHANGED obj
           ELSE /\ obj' = r.value
                /\ pc' = next_pc
                /\ UNCHANGED <<status, message>>

\* Lines 330-331 (file input) and 344-345 (directory input): convert, make
\* the parent directory, write.
WriteStep ==
    /\ obj' = convert_json_obj(obj, default_stress)
    /\ created' = created \cup {out_root}
    /\ writes' = Append(writes, [root |-> out_root, rel |-> in_file,
                                 content |-> convert_json_obj(obj, default_stress)])

FileRead ==
    /\ pc = "main_file_read"
    /\ in_file = 1
    /\ ReadStep("main_file_write")
    /\ UNCHANGED <<default_stress, phoneVars, docVars, args, fs, out_root,
                   remaining, in_file, writes, created>>

\* Lines 330-332.
FileWrite ==
    /\ pc = "main_file_write"
    /\ WriteStep
    /\ status' = "ok"
    /\ pc' = "main_exit"
    /\ UNCHANGED <<default_stress, phoneVars, docVars, args, fs, out_root,
                   remaining, in_file, reads, message>>

\* Mutation of DirArgs: --out is not rejected for a directory input.
DirArgs_out_ignored ==
    /\ pc = "main_dir"
    /\ out_root' = IF args.inplace THEN "input"
                   ELSE IF args.out_dir # None /\ args.out_dir[1] # ""
                   THEN args.out_dir[1]
                   ELSE "default"
    /\ pc' = "main_dir_next"
    /\ UNCHANGED <<status, message>>
    /\ UNCHANGED <<default_stress, phoneVars, docVars, args, fs, remaining,
                   in_file, obj, reads, writes, created>>

\* Lines 335-337.
DirArgs ==
    /\ pc = "main_dir"
    /\ IF args.out # None
       THEN /\ SystemExit("--out is only valid when input is a file")
            /\ UNCHANGED out_root
       ELSE /\ out_root' = IF args.inplace THEN "input"
                           ELSE IF args.out_dir # None /\ args.out_dir[1] # ""
                           THEN args.out_dir[1]
                           ELSE "default"
            /\ pc' = "main_dir_next"
            /\ UNCHANGED <<status, message>>
    /\ UNCHANGED <<default_stress, phoneVars, docVars, args, fs, remaining,
                   in_file, obj, reads, writes, created>>

\* Lines 240-246: the files the walk still has to yield (hidden ones are
\* skipped), in whatever order the file system lists them.
_iter_json_files(left) == {f \in left : fs.files[f] # "hidden"}

\* Line 339: the next file of the walk.
DirNextFile ==
    /\ pc = "main_dir_next"
    /\ \E f \in _iter_json_files(remaining) :
           /\ in_file' = f
           /\ remaining' = remaining \ {f}
    /\ pc' = "main_dir_read"
    /\ UNCHANGED <<default_stress, phoneVars, docVars, args, fs, out_root, obj,
                   reads, writes, created, status, message>>

\* Lines 339, 347: the walk is exhausted, return 0.
DirDone ==
    /\ pc = "main_dir_next"
    /\ _iter_json_files(remaining) = {}
    /\ status' = "ok"
    /\ pc' = "main_exit"
    /\ UNCHANGED <<default_stress, phoneVars, docVars, args, fs, out_root,
                   remaining, in_file, obj, reads, writes, created, message>>

\* Line 343.
DirRead ==
    /\ pc = "main_dir_read"
    /\ ReadStep("main_dir_write")
    /\ UNCHANGED <<default_stress, phoneVars, docVars, args, fs, out_root,
                   remaining, in_file, writes, created>>

\* Lines 344-345.
DirWrite ==
    /\ pc = "main_dir_write"
    /\ WriteStep
    /\ pc' = "main_dir_next"
    /\ UNCHANGED <<default_stress, phoneVars, docVars, args, fs, out_root,
                   remaining, in_file, reads, status, message>>

MaxFiles == 3

MaxArgLen == 2

FileKinds == {"valid", "malformed", "hidden"}

FileSystems ==
    {[kind |-> k, files |-> <<>>] : k \in {"missing", "other"}} \cup
    {[kind |-> "file", files |-> <<c>>] : c \in {"valid", "malformed"}} \cup
    {[kind |-> "dir", files |-> fl] :
        fl \in UNION {[1..n -> FileKinds] : n \in 0..MaxFiles}}

FewFileSystems ==
    { [kind |-> "file", files |-> <<"valid">>],
      [kind |-> "dir", files |-> <<"valid", "malformed">>] }

StressAlphabet == {"0", "1", "2", "3", "+", "-", " ", "_"}

NoneSpellings ==
    {<<a, b, c, d>> : a \in {"n", "N"}, b \in {"o", "O"},
                      c \in {"n", "N"}, d \in {"e", "E"}}

StressArgs ==
    UNION {[1..k -> StressAlphabet] : k \in 0..MaxArgLen}
      \cup NoneSpellings
      \cup { <<"x">>, <<"1", ".", "0">>, <<" ", "n", "o", "n", "e">>,
             <<"U+0662">>, <<"0", "_", "1">>, <<"-", "0", "0">>,
             <<"\t", "+", "0", "2", "\n">>, <<"1", "0">> }

FewStressArgs == {<<"1">>, <<"n", "o", "n", "e">>, <<"3">>}

ArgsOver(stress_args, flags) ==
    [out : {None, Some(""), Some("out.json")},
     out_dir : {None, Some(""), Some("out_dir")},
     inplace : flags, default_stress : stress_args]

InitMain ==
    /\ \/ args \in ArgsOver(FewStressArgs, BOOLEAN) /\ fs \in FileSystems
       \/ /\ args \in ArgsOver(StressArgs, {FALSE})
          /\ args.out = None /\ args.out_dir = None
          /\ fs \in FewFileSystems
    /\ pc = "main_start"
    /\ default_stress = None
    /\ out_root = ""
    /\ remaining = IF fs.kind = "dir" THEN DOMAIN fs.files ELSE {}
    /\ in_file = IF fs.kind = "file" THEN 1 ELSE 0
    /\ obj = JNull
    /\ reads = <<>>
    /\ writes = <<>>
    /\ created = {}
    /\ status = "running"
    /\ message = ""
    /\ phone = <<>>
    /\ out = <<>>
    /\ out2 = <<>>
    /\ doc = JNull
    /\ doc_out = JNull

NextMain ==
    \/ ParseStress
    \/ CheckInput
    \/ FileArgs
    \/ FileRead
    \/ FileWrite
    \/ DirArgs
    \/ DirNextFile
    \/ DirDone
    \/ DirRead
    \/ DirWrite

SpecMain == InitMain /\ [][NextMain]_vars

(***************************************************************************)
(* Properties of the phone mapper (specification SpecPhone).               *)
(***************************************************************************)
Converted == pc \in {"converted", "reconverted"}

NOISE == {<<"s", "p", "n">>, <<"s", "i", "l">>}

StressSuffix(s) == IF s = None THEN <<>> ELSE int_str(s[1])

BareVowelKeys == {k \in TableKeys : IPA_TO_ARPABET[k] \in VOWEL_BASES}

ConsonantKeys ==
    {k \in TableKeys : IPA_TO_ARPABET[k] \notin VOWEL_BASES \cup NOISE}

FixedStressKeys ==
    {k \in TableKeys : str_endswith(IPA_TO_ARPABET[k], {"0", "1", "2"})}

IsAsciiLetter(c) == \E j \in 1..26 : ASCII_UPPER[j] = c \/ ASCII_LOWER[j] = c

\* One to three ASCII letters of either case, then at most one digit 0-2.
ArpabetShaped(x) ==
    \E n \in 1..3 :
        /\ n <= Len(x)
        /\ \A i \in 1..n : IsAsciiLetter(x[i])
        /\ \/ Len(x) = n
           \/ Len(x) = n + 1 /\ x[n + 1] \in {"0", "1", "2"}

\* C1: for every table key whose value is a bare vowel base V and every
\* stress policy s, the result is V followed by the digit s (s = 0, 1, 2),
\* and V alone when s is none; e.g. "i" with policy 1 gives IY1.
C1_DefaultStressApplied ==
    (Converted /\ phone \in BareVowelKeys)
        => out = IPA_TO_ARPABET[phone] \o StressSuffix(default_stress)

AsciiDiphthongs ==
       (<<"a", "j">> :> <<"a", "U+026A">>)
    @@ (<<"a", "w">> :> <<"a", "U+028A">>)
    @@ (<<"e", "j">> :> <<"e", "U+026A">>)
    @@ (<<"o", "w">> :> <<"o", "U+028A">>)
    @@ (<<"U+0254", "j">> :> <<"U+0254", "U+026A">>)

\* C2: for every stress policy, the ASCII-style diphthongs aj, aw, ej, ow
\* and U+0254 j convert to the same label as their canonical forms.
C2_AsciiDiphthongEquivalence ==
    (Converted /\ phone \in DOMAIN AsciiDiphthongs)
        => out = ipa_phone_to_arpabet(AsciiDiphthongs[phone], default_stress)

\* C3: every table key whose value is neither a vowel base nor a noise token
\* converts to exactly its table value under every stress policy.
C3_ConsonantsMapUnstressed ==
    (Converted /\ phone \in ConsonantKeys) => out = IPA_TO_ARPABET[phone]

\* C4: a table value that ends in a stress digit is returned as it is under
\* every stress policy: schwa gives AH0, r-coloured schwa (either spelling)
\* gives ER0; the policy digit is neither appended nor substituted.
C4_FixedStressOverride ==
    /\ FixedStressKeys =
           {<<"U+0259">>, <<"U+025A">>, <<"U+0259", "r">>}
    /\ (Converted /\ phone \in FixedStressKeys) => out = IPA_TO_ARPABET[phone]
    /\ (Converted /\ phone = <<"U+0259">>) => out = <<"A", "H", "0">>
    /\ (Converted /\ phone \in {<<"U+025A">>, <<"U+0259", "r">>})
           => out = <<"E", "R", "0">>

C4_Witness ==
    /\ pc = "converted"
    /\ phone = <<"U+0259">>
    /\ default_stress = Some(2)
    /\ out = <<"A", "H", "0">>

\* C5 as stated: an input shaped like ARPABET converts to itself upper-cased
\* (spn to lower-case spn), and converting the result again changes nothing.
C5_IdempotentUppercase ==
    (pc = "reconverted" /\ ArpabetShaped(phone))
        => /\ out2 = out
           /\ out = IF str_upper(phone) = <<"S", "P", "N">>
                    THEN <<"s", "p", "n">>
                    ELSE str_upper(phone)

\* C5 amended: an input shaped like ARPABET converts to itself upper-cased,
\* except that spn and sil in any letter case convert to lower-case spn and
\* sil; converting the result again changes nothing.
C5_IdempotentUppercaseOrNoise ==
    (pc = "reconverted" /\ ArpabetShaped(phone))
        => /\ out2 = out
           /\ out = IF str_lower(phone) \in NOISE
                    THEN str_lower(phone)
                    ELSE str_upper(phone)

C5_Witness ==
    /\ pc = "reconverted"
    /\ phone = <<"a", "A", "2">>
    /\ default_stress = Some(1)
    /\ out = <<"A", "A", "2">>
    /\ out2 = out

IsBlank(x) == str_strip(x) = <<>>

\* C6 as stated: a non-blank label that is not spn/sil and is not a table
\* key, exactly or lower-cased, is returned unchanged.
C6_UnknownUnchanged ==
    ( /\ Converted
      /\ ~IsBlank(phone)
      /\ str_lower(phone) \notin NOISE
      /\ phone \notin TableKeys
      /\ str_lower(phone) \notin TableKeys )
        => out = phone

\* C6 amended: a non-blank label whose whitespace-trimmed form is not spn/sil
\* in any case, does not look like ARPABET and is not a table key, exactly
\* or lower-cased, is returned with only the surrounding whitespace removed.
C6_UnknownTrimmed ==
    ( /\ Converted
      /\ ~IsBlank(phone)
      /\ str_lower(str_strip(phone)) \notin NOISE
      /\ ~ArpabetShaped(str_upper(str_strip(phone)))
      /\ str_strip(phone) \notin TableKeys
      /\ str_lower(str_strip(phone)) \notin TableKeys )
        => out = str_strip(phone)

C6_Witness ==
    /\ pc = "converted"
    /\ phone = <<"U+0298">>
    /\ default_stress = Some(1)
    /\ out = <<"U+0298">>
(***************************************************************************)
(* Properties of convert_json_obj (specification SpecDoc).                 *)
(***************************************************************************)
\* The positions of a value: the item indices leading from the top to it.
RECURSIVE Paths(_)
Paths(v) ==
    {<<>>} \cup
    UNION {{<<i>> \o p : p \in Paths(v.items[i].val)} : i \in DOMAIN v.items}

RECURSIVE At(_, _)
At(v, p) == IF p = <<>> THEN v ELSE At(v.items[Head(p)].val, Tail(p))

KeyOf(v, p) == At(v, SubSeq(p, 1, Len(p) - 1)).items[p[Len(p)]].key

ItemKeys(v) == [i \in DOMAIN v.items |-> v.items[i].key]

\* p is a string-valued text field of a dict directly inside the phones
\* container (list or dict) of a per-file object of d: d itself when it has
\* both words and phones, otherwise a dict-valued entry of the dict d.
IsPhoneText(d, p) ==
    LET single == dict_has(d, "words") /\ dict_has(d, "phones")
        n      == IF single THEN 0 ELSE 1
    IN  /\ d.kind = "dict"
        /\ Len(p) = n + 3
        /\ At(d, SubSeq(p, 1, n)).kind = "dict"
        /\ KeyOf(d, SubSeq(p, 1, n + 1)) = "phones"
        /\ At(d, SubSeq(p, 1, n + 1)).kind \in {"dict", "list"}
        /\ At(d, SubSeq(p, 1, n + 2)).kind = "dict"
        /\ KeyOf(d, p) = "text"
        /\ At(d, p).kind = "str"

\* C7: the converted document has the shape, keys, key order and values of
\* the input everywhere, except that each string-valued text field of a dict
\* directly inside a phones container of a per-file object holds the
\* converted label; words, timing fields, items without a string text and a
\* top-level value that is not a dict are unchanged.
C7_OnlyPhoneTextChanges ==
    pc = "doc_converted" =>
        /\ Paths(doc_out) = Paths(doc)
        /\ \A p \in Paths(doc) :
               LET a == At(doc, p)
                   b == At(doc_out, p)
               IN  /\ b.kind = a.kind
                   /\ b.num = a.num
                   /\ ItemKeys(b) = ItemKeys(a)
                   /\ b.str = IF IsPhoneText(doc, p)
                              THEN ipa_phone_to_arpabet(a.str, default_stress)
                              ELSE a.str
        /\ doc.kind # "dict" => doc_out = doc

C7_Witness ==
    /\ pc = "doc_converted"
    /\ default_stress = Some(1)
    /\ doc = JDict(<< <<"words", Words>>,
                      <<"phones", JList(<<Interval(<<"t">>),
                                          Interval(<<"U+026A">>)>>)>> >>)
    /\ doc_out = JDict(<< <<"words", Words>>,
                          <<"phones", JList(<<Interval(<<"T">>),
                                              Interval(<<"I", "H", "1">>)>>)>> >>)
(***************************************************************************)
(* Properties of main (specification SpecMain).                            *)
(***************************************************************************)
STRESS_MESSAGE == "--default_stress must be 0, 1, 2, or 'none'"

\* A decimal literal int() accepts whose value is 0, 1 or 2: optional
\* surrounding whitespace, an optional sign, zeros, then a last digit 0-2
\* (0 after a minus sign), with single underscores allowed between digits.
IsLiteral012(s) ==
    LET t      == str_strip(s)
        minus  == t # <<>> /\ t[1] = "-"
        body   == IF t # <<>> /\ t[1] \in {"+", "-"} THEN Tail(t) ELSE t
        n      == Len(body)
        zero   == {"0"}
        two    == {"2", "U+0662"}
    IN  /\ n >= 1
        /\ body[n] \in IF minus THEN zero ELSE zero \cup {"1"} \cup two
        /\ \A i \in 1..(n - 1) :
               \/ body[i] \in zero
               \/ body[i] = "_" /\ i > 1 /\ body[i - 1] # "_"

StressAccepted(s) == str_lower(s) = <<"n", "o", "n", "e">> \/ IsLiteral012(s)

StressRejectedRun == status = "usage" /\ message = STRESS_MESSAGE

UsageError ==
    \/ fs.kind = "missing"
    \/ fs.kind = "file" /\ args.out_dir # None
    \/ fs.kind = "dir" /\ args.out # None
    \/ ~StressAccepted(args.default_stress)

InMain == pc \in {"main_start", "main_check_input", "main_file", "main_dir",
                  "main_file_read", "main_file_write", "main_dir_next",
                  "main_dir_read", "main_dir_write", "main_exit"}

C9_ExactlyFourValues ==
    (InMain /\ pc # "main_start") =>
        (~StressRejectedRun <=>
            args.default_stress \in {<<"0">>, <<"1">>, <<"2">>,
                                     <<"n", "o", "n", "e">>})

\* C9 amended: main gets past the stress check exactly when the value is
\* none in any letter case or a decimal literal that int() reads as 0, 1 or
\* 2; the policy is then none or that digit.  Any other string is rejected
\* with the stress message.
C9_AcceptsNoneOrLiteral012 ==
    (InMain /\ pc # "main_start") =>
        /\ ~StressRejectedRun <=> StressAccepted(args.default_stress)
        /\ ~StressRejectedRun =>
               /\ default_stress \in StressPolicies
               /\ default_stress = None
                      <=> str_lower(args.default_stress) = <<"n", "o", "n", "e">>

C9_Witness ==
    /\ pc = "main_exit"
    /\ args.default_stress = <<"2">>
    /\ default_stress = Some(2)
    /\ status = "ok"
    /\ Len(writes) = 1

IsPrefix(a, b) == Len(a) <= Len(b) /\ a = SubSeq(b, 1, Len(a))

WrittenFiles == [i \in DOMAIN writes |-> writes[i].rel]

\* C10: with a directory input the files are handled one at a time, read
\* then converted then written.  When reading file k hits malformed JSON the
\* run ends there in failure: k is the last file read, the files written are
\* exactly the files read before k, and nothing is read or written after.
C10_ParseErrorAbortsBatch ==
    (InMain /\ fs.kind = "dir") =>
        /\ IsPrefix(WrittenFiles, reads)
        /\ Len(reads) <= Len(writes) + 1
        /\ \A i \in DOMAIN reads :
               /\ fs.files[reads[i]] # "hidden"
               /\ \A j \in DOMAIN reads : i # j => reads[i] # reads[j]
               /\ i < Len(reads) => fs.files[reads[i]] = "valid"
        /\ (reads # <<>> /\ fs.files[reads[Len(reads)]] = "malformed")
               => /\ status = "crashed"
                  /\ pc = "main_exit"
                  /\ Len(writes) = Len(reads) - 1
        /\ status = "crashed"
               => /\ reads # <<>>
                  /\ fs.files[reads[Len(reads)]] = "malformed"
        /\ status = "ok" => Len(writes) = Len(reads)

C10_Witness ==
    /\ pc = "main_exit"
    /\ status = "crashed"
    /\ fs = [kind |-> "dir", files |-> <<"valid", "malformed", "valid">>]
    /\ reads = <<1, 2>>
    /\ WrittenFiles = <<1>>
    /\ remaining = {3}
====
